---- MODULE Spec2Model ----
(***************************************************************************)
(* Model of the toyagent orchestration loop (src/toyagent.py) and of the   *)
(* tool registry it dispatches against (src/toyagent_tools.py).            *)
(*                                                                         *)
(* The process is single-threaded; pc is the blocking call it is waiting   *)
(* in: the operator's input line (run_interactive), the completion         *)
(* request (call_api), the approval prompt (ask_for_approval) or a tool    *)
(* executor.  "dispatch" is the head of the for-loop of                    *)
(* process_api_response.                                                   *)
(***************************************************************************)
EXTENDS Integers, Sequences, FiniteSets, TLC

VARIABLES
    interactive,          \* main: args.prompt absent => run_interactive
    history,              \* the conversation history (list of turns)
    pc,                   \* where the process is blocked / positioned
    exit_kind,            \* how the process ended ("running" while alive)
    api_response,         \* run_loop: response ("unset", "None" or "reply")
    needs_another_call,   \* run_loop: loop variable
    tool_calls,           \* process_api_response: response_message.tool_calls
    idx,                  \* process_api_response: position of the for-loop
    tool_results,         \* process_api_response: tool_results
    parsed_args,          \* process_api_response: parsed_args of the call
    approved,             \* process_api_response: approved
    response,             \* ask_for_approval: the input just read
    reprompts,            \* ask_for_approval: invalid lines read at this prompt
    events,               \* gate/executor invocations of the current batch
    TOOL_EXECUTORS,       \* toyagent_tools.TOOL_EXECUTORS (names with an executor)
    DANGEROUS_TOOL_INFO,  \* toyagent_tools.DANGEROUS_TOOL_INFO
    MEMORY_FILE_PATH,     \* toyagent_tools.MEMORY_FILE_PATH ("None" while unset)
    MEMORY_NODES,         \* toyagent_tools.MEMORY_NODES (node id -> node)
    memory_file,          \* the backing file on disk
    clock,                \* the wall clock read by _get_utc_iso_timestamp
    issued,               \* the ids uuid.uuid4 has handed out so far
    ever_ids,             \* history: the ids that were ever keys of MEMORY_NODES
    mpc,                  \* main: before init ("start"), serving, or "exited"
    mcall,                \* the memory tool call made last (name and arguments)
    mresult,              \* the dictionary that call returned
    gate_pc,              \* approval check: before it ("check"), after ("asked")
    gate_call,            \* approval check: function_name and parsed_args
    action_description,   \* ask_for_approval: its first argument
    details               \* ask_for_approval: its second argument

vars == <<interactive, history, pc, exit_kind, api_response, needs_another_call,
          tool_calls, idx, tool_results, parsed_args, approved, response,
          reprompts, events, TOOL_EXECUTORS, DANGEROUS_TOOL_INFO,
          MEMORY_FILE_PATH, MEMORY_NODES, memory_file, clock, issued, ever_ids,
          mpc, mcall, mresult, gate_pc, gate_call, action_description, details>>

registryVars == <<TOOL_EXECUTORS, DANGEROUS_TOOL_INFO>>

loopVars == <<interactive, history, pc, exit_kind, api_response, needs_another_call,
              tool_calls, idx, tool_results, parsed_args, approved, response,
              reprompts, events>>

memoryVars == <<MEMORY_FILE_PATH, MEMORY_NODES, memory_file, clock, issued,
                ever_ids, mpc, mcall, mresult>>

gateVars == <<gate_pc, gate_call, action_description, details>>

(***************************************************************************)
(* Bounds of the model.                                                    *)
(***************************************************************************)
MaxTurns == 2        \* operator requests in one interactive session
MaxCalls == 2        \* tool-call requests the model sends in one session
MaxReprompts == 1    \* invalid lines the operator types at one prompt

(***************************************************************************)
(* The registry (toyagent_tools.py, lines 497-528).                        *)
(***************************************************************************)
ExecutorNames ==
    {"execute_shell_command", "read_file", "write_file", "copy_file",
     "list_directory", "create_directory", "fetch_web_page", "ask_user",
     "execute_python_code", "create_memory_node", "retrieve_memory_nodes",
     "update_memory_node", "delete_memory_node", "list_memory_nodes"}

DangerousInfo ==
    [n \in {"execute_shell_command", "write_file", "copy_file",
            "create_directory", "fetch_web_page", "execute_python_code"} |->
       CASE n = "execute_shell_command" -> [desc |-> "Execute Shell Command", detail_arg |-> "command"]
         [] n = "write_file"            -> [desc |-> "Write to File", detail_arg |-> "path"]
         [] n = "copy_file"             -> [desc |-> "Copy File", detail_arg |-> "destination_path"]
         [] n = "create_directory"      -> [desc |-> "Create Directory", detail_arg |-> "path"]
         [] n = "fetch_web_page"        -> [desc |-> "Fetch Web Page", detail_arg |-> "url"]
         [] n = "execute_python_code"   -> [desc |-> "Execute Python Code", detail_arg |-> "code"]]

\* variant of DANGEROUS_TOOLS: the delete of a memory node needs approval too
DANGEROUS_TOOLS_with_delete == DOMAIN DANGEROUS_TOOL_INFO \cup {"delete_memory_node"}

\* toyagent_tools.py, line 528
DANGEROUS_TOOLS == DOMAIN DANGEROUS_TOOL_INFO

(***************************************************************************)
(* What the completion service may send.  A tool-call request carries an   *)
(* id, a tool name and a raw argument payload; the payload is modelled by  *)
(* its kind:                                                               *)
(*   "obj"          a JSON object                                          *)
(*   "array"        valid JSON that is not an object (a list)              *)
(*   "malformed"    text that json.loads rejects                           *)
(* CallShapes are the requests the service sends in the model: a tool      *)
(* that needs no approval, a dangerous tool, a name the registry does not  *)
(* have, and a memory tool.                                                *)
(***************************************************************************)
CallShapes ==
    {<<"read_file", "obj">>, <<"read_file", "array">>,
     <<"execute_shell_command", "obj">>, <<"execute_shell_command", "array">>,
     <<"execute_shell_command", "malformed">>,
     <<"nonexistent", "obj">>, <<"nonexistent", "malformed">>,
     <<"delete_memory_node", "obj">>}

SystemTurn == [role |-> "system"]
UserTurn == [role |-> "user"]
AssistantTurn(calls) ==
    [role |-> "assistant",
     tool_calls |-> [k \in 1..Len(calls) |-> [id |-> calls[k].id, name |-> calls[k].name]]]

RECURSIVE CountCalls(_)
CountCalls(h) ==
    IF h = <<>> THEN 0
    ELSE (IF h[1].role = "assistant" THEN Len(h[1].tool_calls) ELSE 0) + CountCalls(Tail(h))

RECURSIVE CountUserTurns(_)
CountUserTurns(h) ==
    IF h = <<>> THEN 0
    ELSE (IF h[1].role = "user" THEN 1 ELSE 0) + CountUserTurns(Tail(h))

\* The batches the service may send next: fresh call ids, at most MaxCalls
\* requests in the session.
Batches ==
    LET used == CountCalls(history)
        room == MaxCalls - used
    IN UNION {
         { [k \in 1..n |-> [id |-> used + k, name |-> sh[k][1], arguments |-> sh[k][2]]] :
             sh \in [1..n -> CallShapes] } :
         n \in 0..room }

\* variant of print_tool_call_request: the raw payload is passed on when it
\* does not parse
print_tool_call_request_raw(call) == call.arguments

(***************************************************************************)
(* print_tool_call_request (toyagent.py, lines 56-76): json.loads of the   *)
(* raw payload.  A payload json.loads rejects gives None; every valid JSON *)
(* value, object or not, is returned as parsed (the list modelled by       *)
(* "array" does not contain the string "code").                            *)
(***************************************************************************)
print_tool_call_request(call) ==
    IF call.arguments = "malformed" THEN "None" ELSE call.arguments

\* variant of executor_func: an unknown name resolves to an executor
executor_func_fallback(function_name) == function_name

\* agent_tools.TOOL_EXECUTORS.get(function_name), line 153
executor_func(function_name) ==
    IF function_name \in TOOL_EXECUTORS THEN function_name ELSE "None"

\* variant of UnsupportedContent: the code of the invalid-arguments branch
UnsupportedContent_code5 == [error |-> "Unsupported function", exit_code |-> -5]

\* The tool_content of the dispatch failure classes: lines 159 and 162
UnsupportedContent == [error |-> "Unsupported function", exit_code |-> -6]

InvalidArgsContent == [error |-> "Invalid arguments provided to tool.", exit_code |-> -5]

\* lines 196-197
DeniedContent ==
    LET tool_content == [error |-> "Action denied by user."]
    IN IF "exit_code" \notin DOMAIN tool_content
       THEN [error |-> tool_content.error, exit_code |-> -4]
       ELSE tool_content

\* variant of CatchesExecutorFailure: the failure leaves process_api_response
CatchesExecutorFailure_not == FALSE

\* process_api_response: except Exception around the executor call (line 189)
CatchesExecutorFailure == TRUE

\* lines 191-192
ExecFailedContent ==
    LET tool_content == [error |-> "Tool execution failed"]
    IN IF "exit_code" \notin DOMAIN tool_content
       THEN [error |-> tool_content.error, exit_code |-> -7]
       ELSE tool_content

(***************************************************************************)
(* What an executor returns when it returns: every executor of the         *)
(* registry returns a dict.  execute_shell_command reports the exit code   *)
(* of the subprocess (toyagent_tools.py, line 218), which is negative when *)
(* a signal killed it: -6 for SIGABRT.                                     *)
(***************************************************************************)
ExecutorReturns(function_name) ==
    IF function_name = "execute_shell_command"
    THEN {[error |-> "None", exit_code |-> -6]}
    ELSE {[error |-> "None"]}

\* variant of result_data: every result carries the id of the first call of the batch
result_data_first_id(call, tool_content) ==
    [tool_call_id |-> tool_calls[1].id, role |-> "tool", name |-> call.name,
     content |-> tool_content]

\* result_data, lines 207-212
result_data(call, tool_content) ==
    [tool_call_id |-> call.id, role |-> "tool", name |-> call.name, content |-> tool_content]

\* variant of BatchDone: the results go to the history after the first call
BatchDone_first(i, calls) == TRUE

\* the for-loop over tool_calls is exhausted after the call at position i (line 149)
BatchDone(i, calls) == i = Len(calls)

\* variant of LoopAgain: the loop does not test its variable
LoopAgain_always(r) == TRUE

\* run_loop: while needs_another_call (line 249)
LoopAgain(r) == r

\* variant of OnApiFailure: the request is retried
OnApiFailure_retry == TRUE

\* run_loop: needs_another_call after a failed request (line 256)
OnApiFailure == FALSE

\* variant of RunsExecutor: the executor runs whatever the gate answered
RunsExecutor_always(ok) == TRUE

\* process_api_response: if approved (line 175)
RunsExecutor(ok) == ok

(***************************************************************************)
(* ask_for_approval (lines 111-120): the operator's line is lower-cased    *)
(* and stripped, character by character.  Lines are the lines the operator *)
(* may type at the prompt.                                                 *)
(***************************************************************************)
Lines ==
    {<<>>, <<"y">>, <<" ", "Y", " ">>, <<"N", " ">>, <<" ", " ">>,
     <<"x">>, <<"y", "e", "s">>}

NoInput == [kind |-> "none", text |-> <<>>]

Inputs ==
    {[kind |-> "line", text |-> l] : l \in Lines}
      \cup {[kind |-> "eof", text |-> <<>>], [kind |-> "interrupt", text |-> <<>>]}

LowerChar(c) ==
    CASE c = "Y" -> "y" [] c = "N" -> "n" [] c = "F" -> "f" [] c = "O" -> "o"
      [] OTHER -> c

Lower(line) == [k \in 1..Len(line) |-> LowerChar(line[k])]

RECURSIVE LStrip(_)
LStrip(line) ==
    IF line # <<>> /\ line[1] = " " THEN LStrip(Tail(line)) ELSE line

RECURSIVE RStrip(_)
RStrip(line) ==
    IF line # <<>> /\ line[Len(line)] = " "
    THEN RStrip(SubSeq(line, 1, Len(line) - 1)) ELSE line

Strip(line) == RStrip(LStrip(line))

\* variant of Normalize: the line is stripped but not lower-cased
Normalize_no_lower(line) == Strip(line)

\* line 114: input(...).lower().strip()
Normalize(line) == Strip(Lower(line))

\* lines 115-120: "True", "False", or "reprompt" when the loop goes round
GateAnswer(inp) ==
    IF inp.kind \in {"eof", "interrupt"} THEN "False"
    ELSE IF Normalize(inp.text) = <<"y">> THEN "True"
    ELSE IF Normalize(inp.text) = <<"n">> \/ Normalize(inp.text) = <<>> THEN "False"
    ELSE "reprompt"

(***************************************************************************)
(* The memory store (toyagent_tools.py, lines 13-67 and 370-494).          *)
(*                                                                         *)
(* A string is the sequence of its characters, an optional argument is     *)
(* None or Some(value), and a timestamp is the reading of the clock: the   *)
(* code compares the ISO-8601 UTC strings of datetime.isoformat, whose     *)
(* order is the order of the instants they denote.  Stamps below zero are  *)
(* instants before the first process of the model started.                 *)
(***************************************************************************)
MaxClock == 2        \* readings of the clock (create and update take one each)

None == <<>>
Some(x) == <<x>>

\* MEMORY_NODES = {} (line 22)
EmptyMap == [k \in {} |-> k]

Range(seq) == {seq[k] : k \in DOMAIN seq}

\* the code-point order of the tags of the model
TagRank(tag) == IF tag = "a" THEN 1 ELSE 2

\* sorted(list(...)) of a set of tags (lines 376, 443)
RECURSIVE sorted(_)
sorted(S) ==
    IF S = {} THEN <<>>
    ELSE LET least == CHOOSE x \in S : \A y \in S : TagRank(x) <= TagRank(y)
         IN  <<least>> \o sorted(S \ {least})

\* variant of unique_tags: the list is stored as it was given
unique_tags_as_given(tags) == tags

\* line 376: unique_tags = sorted(list(set(tags)))
unique_tags(tags) == sorted(Range(tags))

\* s1 in s2, for strings
Contains(s1, s2) ==
    \E k \in 0..(Len(s2) - Len(s1)) : SubSeq(s2, k + 1, k + Len(s1)) = s1

\* the defaults of the signatures (lines 392, 468) and the sizes of the
\* preview of delete (line 459)
DefaultRetrieveLimit == 10
DefaultListLimit == 20
DefaultListOffset == 0
PreviewTags == 3
PreviewChars == 50

\* a content longer than the preview of delete
LongText == <<"F", "o", "o">> \o [k \in 1..PreviewChars |-> "d"]

\* The values the model requests: what create is called with ...
CreateShapes ==
    {[tags |-> <<"a", "b", "a">>, content |-> <<"F", "o", "o">>, source_chat |-> None],
     [tags |-> <<"a">>, content |-> <<"f", "o", "o", "d">>, source_chat |-> Some("chat-1")],
     [tags |-> <<"b">>, content |-> <<"b", "a", "r">>, source_chat |-> None],
     [tags |-> <<>>, content |-> <<>>, source_chat |-> None]}

\* ... retrieve (limit absent: the default of line 392) ...
RetrieveShapes ==
    {[match_all_tags |-> <<>>, query_in_content |-> None, limit |-> None],
     [match_all_tags |-> <<>>, query_in_content |-> Some(<<"f", "o">>), limit |-> Some(0)],
     [match_all_tags |-> <<"a">>, query_in_content |-> None, limit |-> None],
     [match_all_tags |-> <<"a">>, query_in_content |-> Some(<<"f", "O", "O">>), limit |-> Some(1)],
     [match_all_tags |-> <<"a">>, query_in_content |-> None, limit |-> Some(0)],
     [match_all_tags |-> <<"b", "a">>, query_in_content |-> Some(<<>>), limit |-> Some(-1)]}

\* ... update ...
UpdateShapes ==
    {[new_content |-> None, add_tags |-> None, remove_tags |-> None],
     [new_content |-> Some(<<"F", "o", "o">>), add_tags |-> None, remove_tags |-> None],
     [new_content |-> Some(<<"b", "a", "r">>), add_tags |-> Some(<<"a">>), remove_tags |-> None],
     [new_content |-> None, add_tags |-> Some(<<"b">>), remove_tags |-> Some(<<"b">>)],
     [new_content |-> None, add_tags |-> Some(<<"b", "b">>), remove_tags |-> None],
     [new_content |-> None, add_tags |-> None, remove_tags |-> Some(<<"a">>)]}

\* ... and list (limit and offset absent: the defaults of line 468).
ListShapes ==
    {[filter_match_all_tags |-> None, limit |-> None, offset |-> None],
     [filter_match_all_tags |-> Some(<<"a">>), limit |-> Some(1), offset |-> Some(1)],
     [filter_match_all_tags |-> Some(<<>>), limit |-> Some(1), offset |-> Some(-1)],
     [filter_match_all_tags |-> None, limit |-> Some(2), offset |-> Some(3)],
     [filter_match_all_tags |-> Some(<<"b">>), limit |-> Some(-1), offset |-> Some(0)]}

\* The ids uuid.uuid4 draws from, and an id no node of the model ever has.
UuidPool == {"u1", "u2"}
MissingId == "u0"

Node(node_id, tags, content, source_chat, created_at, updated_at) ==
    [node_id |-> node_id, tags |-> tags, content |-> content,
     source_chat |-> source_chat, created_at |-> created_at,
     updated_at |-> updated_at]

\* The JSON values a node is written as: a JSON string for a str, null for
\* None, an array of strings for the tag list.
JsonString(s) == [type |-> "string", value |-> s]
JsonNull == [type |-> "null"]
JsonArray(items) == [type |-> "array", items |-> items]

\* json.dump (line 60) of an Optional[str]
json_dump_optional(x) == IF x = None THEN JsonNull ELSE JsonString(x[1])

\* json.dump (line 60) of the node map: an object whose members are objects
json_dump(nodes) ==
    [k \in DOMAIN nodes |->
        [node_id |-> JsonString(nodes[k].node_id),
         tags |-> JsonArray([i \in DOMAIN nodes[k].tags |->
                                JsonString(nodes[k].tags[i])]),
         content |-> JsonString(nodes[k].content),
         source_chat |-> json_dump_optional(nodes[k].source_chat),
         created_at |-> JsonString(nodes[k].created_at),
         updated_at |-> JsonString(nodes[k].updated_at)]]

\* variant of json_load_optional: null is read as an empty text
json_load_optional_null_as_text(v) ==
    IF v.type = "null" THEN Some(<<>>) ELSE Some(v.value)

\* json.load (line 38) of a string or null
json_load_optional(v) == IF v.type = "null" THEN None ELSE Some(v.value)

\* json.load (line 38) of an object of node objects
json_load(members) ==
    [k \in DOMAIN members |->
        Node(members[k].node_id.value,
             [i \in DOMAIN members[k].tags.items |-> members[k].tags.items[i].value],
             members[k].content.value,
             json_load_optional(members[k].source_chat),
             members[k].created_at.value,
             members[k].updated_at.value)]

\* The backing file before the first process starts: absent, not JSON, a
\* JSON value that is not an object, or an object of nodes that was written
\* by other means than this program: json.load takes the tag list and the
\* stamps of a node as they stand in the file.
FileOf(kind, nodes) == [kind |-> kind, nodes |-> nodes]

\* the node map that a file holding a JSON object holds
FileNodes(file) == json_load(file.nodes)

FileHolds(file, nodes) == file.kind = "object" /\ FileNodes(file) = nodes

ForeignFiles ==
    {FileOf("object", json_dump([k \in {"n1"} |->
        Node("n1", <<"b", "a", "a", "b">>, LongText, None, -1, -2)]))}

InitialFiles ==
    {FileOf("absent", EmptyMap), FileOf("malformed", EmptyMap),
     FileOf("nonobject", EmptyMap)} \cup ForeignFiles

NoCall == [name |-> "none"]
NoResult == [status |-> "none"]

\* variant of Initialized: the guard is missing
Initialized_always(path) == TRUE

\* "if not MEMORY_FILE_PATH" (lines 372, 393, 418, 456, 469), negated
Initialized(path) == path # "None"

NotInitialized(name) ==
    IF name = "create_memory_node"
    THEN [error |-> "Memory system not initialized. Provide --memory-file."]
    ELSE [error |-> "Memory system not initialized."]

\* variant of LoadFails: a file that is not JSON ends the load with the
\* JSONDecodeError of json.load
LoadFails_on_bad_json(file) == file.kind = "malformed"

\* load_memory_from_file (lines 35-51): whether an exception leaves the
\* function.  The file is opened and parsed inside a try block that catches
\* json.JSONDecodeError and every other Exception.
LoadFails(file) == FALSE

\* load_memory_from_file (lines 33-52): the new value of MEMORY_NODES
load_memory_from_file(path, file) ==
    IF path # "None" /\ file.kind # "absent"
    THEN IF file.kind = "object" THEN json_load(file.nodes) ELSE EmptyMap
    ELSE EmptyMap

\* variant of save_memory_to_file: a file that could not be read is kept
save_memory_to_file_keeps_unread(path, nodes, file) ==
    IF path # "None" /\ file.kind # "malformed"
    THEN FileOf("object", json_dump(nodes)) ELSE file

\* save_memory_to_file (lines 54-64): the new content of the file
save_memory_to_file(path, nodes, file) ==
    IF path # "None" THEN FileOf("object", json_dump(nodes)) ELSE file

\* variant of generate_node_id: an id no live node has
generate_node_id_unused == UuidPool \ DOMAIN MEMORY_NODES

\* _generate_node_id (lines 66-67): uuid.uuid4 draws an id it has not drawn
\* before, in this process or an earlier one
generate_node_id == UuidPool \ issued

\* _get_utc_iso_timestamp (lines 25-26)
get_utc_iso_timestamp == clock

\* MEMORY_NODES[node_id] = node
Put(nodes, node_id, node) ==
    [k \in DOMAIN nodes \cup {node_id} |-> IF k = node_id THEN node ELSE nodes[k]]

\* variant of Del: the node stays
Del_keep(nodes, node_id) == nodes

\* del MEMORY_NODES[node_id]
Del(nodes, node_id) == [k \in DOMAIN nodes \ {node_id} |-> nodes[k]]

OrDefault(opt, default) == IF opt = None THEN default ELSE opt[1]

\* Python truth of an optional string or list: given and not empty
Truthy(opt) == opt # None /\ opt[1] # <<>>

\* variant of sorted_nodes: oldest first
RECURSIVE sorted_nodes_ascending(_, _)
sorted_nodes_ascending(nodes, keys) ==
    IF keys = {} THEN <<>>
    ELSE LET first == CHOOSE x \in keys :
                          \A y \in keys : nodes[x].updated_at <= nodes[y].updated_at
         IN  <<nodes[first]>> \o sorted_nodes_ascending(nodes, keys \ {first})

\* sorted(MEMORY_NODES.values(), key=updated_at, reverse=True), lines 403, 472
RECURSIVE sorted_nodes(_, _)
sorted_nodes(nodes, keys) ==
    IF keys = {} THEN <<>>
    ELSE LET first == CHOOSE x \in keys :
                          \A y \in keys : nodes[x].updated_at >= nodes[y].updated_at
         IN  <<nodes[first]>> \o sorted_nodes(nodes, keys \ {first})

\* line 406: required_tags_set.issubset(set(node["tags"]))
HasTags(node, required) == Range(required) \subseteq Range(node.tags)

\* lines 407-409: the query, when one is given, is in the content, both
\* lower-cased
QueryMatches(node, query_in_content) ==
    Truthy(query_in_content) =>
        Contains(Lower(query_in_content[1]), Lower(node.content))

\* variant of EmptyTagsRejected: the list is not looked at
EmptyTagsRejected_never(match_all_tags) == FALSE

\* line 395: if not match_all_tags
EmptyTagsRejected(match_all_tags) == match_all_tags = <<>>

\* lines 405-412: the loop over sorted_nodes, left at the first append that
\* brings results to the limit
RECURSIVE RetrieveLoop(_, _, _, _, _)
RetrieveLoop(rest, results, required, query_in_content, limit) ==
    IF rest = <<>> THEN results
    ELSE LET node == Head(rest)
         IN  IF HasTags(node, required) /\ QueryMatches(node, query_in_content)
             THEN LET appended == Append(results, node)
                  IN  IF Len(appended) >= limit THEN appended
                      ELSE RetrieveLoop(Tail(rest), appended, required,
                                        query_in_content, limit)
             ELSE RetrieveLoop(Tail(rest), results, required, query_in_content, limit)

\* lines 395-413: what retrieve returns on an enabled store
RetrieveResult(nodes, args) ==
    IF EmptyTagsRejected(args.match_all_tags)
    THEN [error |-> "The 'match_all_tags' parameter cannot be empty for retrieval."]
    ELSE LET results == RetrieveLoop(sorted_nodes(nodes, DOMAIN nodes), <<>>,
                                     args.match_all_tags, args.query_in_content,
                                     OrDefault(args.limit, DefaultRetrieveLimit))
         IN  [nodes |-> results, count |-> Len(results)]

\* variant of NotFound: the call is reported as done
NotFound_as_done(node_id) == [node_id |-> node_id, status |-> "deleted"]

\* lines 421, 464: the error names the id
NotFound(node_id) == [error |-> "Node with ID not found.", node_id |-> node_id]

\* lines 423-441 of update: the content after the call, the tag set after the
\* additions and after the removals, and the fields flagged as updated
NewContent(node, args) ==
    IF args.new_content # None THEN args.new_content[1] ELSE node.content

TagsAdded(node, args) ==
    Range(node.tags) \cup (IF Truthy(args.add_tags) THEN Range(args.add_tags[1]) ELSE {})

\* variant of TagsLeft: the removals are made before the additions
TagsLeft_remove_first(node, args) ==
    (Range(node.tags)
        \ (IF Truthy(args.remove_tags) THEN Range(args.remove_tags[1]) ELSE {}))
      \cup (IF Truthy(args.add_tags) THEN Range(args.add_tags[1]) ELSE {})

\* lines 437-441: the set after the loop over remove_tags
TagsLeft(node, args) ==
    TagsAdded(node, args)
        \ (IF Truthy(args.remove_tags) THEN Range(args.remove_tags[1]) ELSE {})

updated_fields(node, args) ==
    (IF args.new_content # None THEN <<"content">> ELSE <<>>)
      \o (IF \/ TagsAdded(node, args) # Range(node.tags)
             \/ TagsLeft(node, args) # TagsAdded(node, args)
          THEN <<"tags">> ELSE <<>>)

\* variant of Touch: both stamps are renewed
Touch_both(node, timestamp) ==
    [node EXCEPT !.updated_at = timestamp, !.created_at = timestamp]

\* line 446: node["updated_at"] = _get_utc_iso_timestamp()
Touch(node, timestamp) == [node EXCEPT !.updated_at = timestamp]

\* line 459: the preview of the node that delete removes
Prefix(seq, n) == SubSeq(seq, 1, IF Len(seq) < n THEN Len(seq) ELSE n)

Preview(node_id, node) ==
    [node_id |-> node_id, tags |-> Prefix(node.tags, PreviewTags),
     content_preview |-> Prefix(node.content, PreviewChars) \o <<".", ".", ".">>]

\* seq[lo:hi] of Python: negative indices count from the end, and both ends
\* are clamped to the list
SliceIndex(i, n) ==
    IF i < 0 THEN (IF i + n < 0 THEN 0 ELSE i + n) ELSE IF i > n THEN n ELSE i

Slice(seq, lo, hi) ==
    SubSeq(seq, SliceIndex(lo, Len(seq)) + 1, SliceIndex(hi, Len(seq)))

\* lines 475-481: the nodes the filter keeps, in the order of the list
Filtered(seq, filter_match_all_tags) ==
    IF Truthy(filter_match_all_tags)
    THEN SelectSeq(seq, LAMBDA node : HasTags(node, filter_match_all_tags[1]))
    ELSE seq

\* lines 472-492: what list returns on an enabled store
ListResult(nodes, args) ==
    LET filtered_nodes == Filtered(sorted_nodes(nodes, DOMAIN nodes),
                                   args.filter_match_all_tags)
        limit == OrDefault(args.limit, DefaultListLimit)
        offset == OrDefault(args.offset, DefaultListOffset)
        paginated_nodes == Slice(filtered_nodes, offset, offset + limit)
    IN  [nodes |-> paginated_nodes, total_matching |-> Len(filtered_nodes),
         count_returned |-> Len(paginated_nodes), limit |-> limit,
         offset |-> offset]

\* The log of the current batch: the gate was invoked for call i ("ask") and
\* returned ("approved", "denied"), the executor was called ("exec") and
\* raised ("raised"), the result of the call was appended ("result").
Event(kind, i) == [kind |-> kind, call |-> i]

LoopInit ==
    /\ interactive \in BOOLEAN
    /\ history = IF interactive THEN <<SystemTurn>> ELSE <<SystemTurn, UserTurn>>
    /\ pc = IF interactive THEN "user_input" ELSE "call_api"
    /\ exit_kind = "running"
    /\ api_response = "unset"
    /\ needs_another_call = TRUE
    /\ tool_calls = <<>>
    /\ idx = 0
    /\ tool_results = <<>>
    /\ parsed_args = "unset"
    /\ approved = TRUE
    /\ response = NoInput
    /\ reprompts = 0
    /\ events = <<>>
    /\ TOOL_EXECUTORS = ExecutorNames
    /\ DANGEROUS_TOOL_INFO = DangerousInfo

\* main without --memory-file: the store stays as the module defines it
\* (toyagent_tools.py, lines 22-23)
MemoryOff ==
    /\ MEMORY_FILE_PATH = "None"
    /\ MEMORY_NODES = EmptyMap
    /\ memory_file = FileOf("absent", EmptyMap)
    /\ clock = 0
    /\ issued = {}
    /\ ever_ids = {}
    /\ mpc = "off"
    /\ mcall = NoCall
    /\ mresult = NoResult

\* no approval check is under way
GateOff ==
    /\ gate_pc = "off"
    /\ gate_call = [name |-> "none"]
    /\ action_description = "none"
    /\ details = [chars |-> "none"]

Init == LoopInit /\ MemoryOff /\ GateOff

\* The process ends (main, lines 334-342).
Exit(kind) ==
    /\ pc' = "exited"
    /\ exit_kind' = kind

\* run_loop returns: back to the prompt of run_interactive, or
\* run_single_pass finishes and main ends.
EndTurn ==
    IF interactive
    THEN pc' = "user_input" /\ exit_kind' = exit_kind
    ELSE Exit("finished")

(***************************************************************************)
(* run_interactive, lines 269-279: one operator line.                      *)
(***************************************************************************)
run_interactive ==
    /\ pc = "user_input"
    /\ \E user_input \in {"text", "empty", "quit", "eof"} :
         CASE user_input = "text" ->
                /\ CountUserTurns(history) < MaxTurns
                /\ history' = Append(history, UserTurn)
                /\ pc' = "call_api"
                /\ needs_another_call' = TRUE
                /\ api_response' = "unset"
                /\ UNCHANGED exit_kind
           [] user_input = "empty" ->
                UNCHANGED <<history, pc, exit_kind, needs_another_call, api_response>>
           [] user_input = "quit" ->
                /\ Exit("quit")
                /\ UNCHANGED <<history, needs_another_call, api_response>>
           [] user_input = "eof" ->
                /\ Exit("interrupt")
                /\ UNCHANGED <<history, needs_another_call, api_response>>
    /\ response' = NoInput
    /\ UNCHANGED <<interactive, tool_calls, idx, tool_results, parsed_args,
                   approved, reprompts, events, registryVars, memoryVars, gateVars>>

(***************************************************************************)
(* run_loop, lines 249-256: one completion request (call_api), and on a    *)
(* reply the head of process_api_response (lines 139-147).                 *)
(***************************************************************************)
call_api ==
    /\ pc = "call_api"
    /\ needs_another_call
    /\ \/ \E batch \in Batches :
            /\ api_response' = "reply"
            /\ history' = Append(history, AssistantTurn(batch))
            /\ tool_calls' = batch
            /\ tool_results' = <<>>
            /\ events' = <<>>
            /\ IF batch = <<>>
               THEN /\ needs_another_call' = FALSE
                    /\ idx' = 0
                    /\ IF LoopAgain(needs_another_call')
                       THEN pc' = "call_api" /\ exit_kind' = exit_kind
                       ELSE EndTurn
               ELSE /\ needs_another_call' = needs_another_call
                    /\ idx' = 1
                    /\ pc' = "dispatch"
                    /\ exit_kind' = exit_kind
       \/ /\ api_response' = "None"
          /\ needs_another_call' = OnApiFailure
          /\ IF LoopAgain(needs_another_call')
             THEN pc' = "call_api" /\ exit_kind' = exit_kind
             ELSE EndTurn
          /\ UNCHANGED <<history, tool_calls, idx, tool_results, events>>
       \/ /\ Exit("interrupt")
          /\ UNCHANGED <<api_response, needs_another_call, history, tool_calls,
                         idx, tool_results, events>>
    /\ response' = NoInput
    /\ UNCHANGED <<interactive, parsed_args, approved, reprompts, registryVars, memoryVars, gateVars>>

\* variant of extend: the tool turns are written over the assistant turn
extend_over_last(h, items) == SubSeq(h, 1, Len(h) - 1) \o items

\* history.extend(tool_results) (line 216)
extend(h, items) == h \o items

(***************************************************************************)
(* The end of one pass of the for-loop (lines 199-217): the result is      *)
(* appended to tool_results; after the last call the results are appended  *)
(* to the history and process_api_response returns True.                   *)
(***************************************************************************)
Finish(tool_content, evs) ==
    LET call == tool_calls[idx]
        results == Append(tool_results, result_data(call, tool_content))
    IN /\ events' = Append(evs, Event("result", idx))
       /\ tool_results' = results
       /\ parsed_args' = "unset"
       /\ reprompts' = 0
       /\ exit_kind' = exit_kind
       /\ IF BatchDone(idx, tool_calls)
          THEN /\ history' = extend(history, results)
               /\ needs_another_call' = TRUE
               /\ idx' = 0
               /\ pc' = IF LoopAgain(needs_another_call') THEN "call_api"
                        ELSE IF interactive THEN "user_input" ELSE "exited"
          ELSE /\ idx' = idx + 1
               /\ pc' = "dispatch"
               /\ UNCHANGED <<history, needs_another_call>>

(***************************************************************************)
(* process_api_response, lines 150-172: parse, resolve, and either produce *)
(* an error result, open the approval prompt or go on to the executor.     *)
(***************************************************************************)
dispatch ==
    /\ pc = "dispatch"
    /\ LET call == tool_calls[idx]
           pa == print_tool_call_request(call)
       IN IF executor_func(call.name) = "None"
          THEN /\ Finish(UnsupportedContent, events)
               /\ approved' = TRUE
          ELSE IF pa = "None"
          THEN /\ Finish(InvalidArgsContent, events)
               /\ approved' = TRUE
          ELSE IF call.name \in DANGEROUS_TOOLS
          THEN IF pa = "array"
               THEN \* parsed_args.get on a list: AttributeError leaves the loop
                    /\ Exit("error")
                    /\ approved' = TRUE
                    /\ UNCHANGED <<history, needs_another_call, idx, tool_results,
                                   parsed_args, reprompts, events>>
               ELSE /\ pc' = "approval"
                    /\ parsed_args' = pa
                    /\ approved' = TRUE
                    /\ reprompts' = 0
                    /\ events' = Append(events, Event("ask", idx))
                    /\ UNCHANGED <<history, needs_another_call, idx, tool_results,
                                   exit_kind>>
          ELSE /\ pc' = "execute"
               /\ parsed_args' = pa
               /\ approved' = TRUE
               /\ UNCHANGED <<history, needs_another_call, idx, tool_results,
                              reprompts, events, exit_kind>>
    /\ response' = NoInput
    /\ UNCHANGED <<interactive, api_response, tool_calls, registryVars, memoryVars, gateVars>>

(***************************************************************************)
(* ask_for_approval, lines 111-120: one read of the operator's line; on a  *)
(* return the caller either goes on to the executor (line 175) or produces *)
(* the denial (lines 194-197).                                             *)
(***************************************************************************)
ask_for_approval ==
    /\ pc = "approval"
    /\ \E inp \in Inputs :
         /\ response' = inp
         /\ IF GateAnswer(inp) = "reprompt"
            THEN /\ reprompts < MaxReprompts
                 /\ reprompts' = reprompts + 1
                 /\ UNCHANGED <<pc, approved, history, needs_another_call, idx,
                                tool_results, parsed_args, events, exit_kind>>
            ELSE LET evs == Append(events, Event(IF GateAnswer(inp) = "True"
                                                 THEN "approved" ELSE "denied", idx))
                 IN /\ approved' = (GateAnswer(inp) = "True")
                    /\ IF RunsExecutor(approved')
                       THEN /\ pc' = "execute"
                            /\ events' = evs
                            /\ UNCHANGED <<history, needs_another_call, idx,
                                           tool_results, parsed_args, reprompts,
                                           exit_kind>>
                       ELSE Finish(DeniedContent, evs)
    /\ UNCHANGED <<interactive, api_response, tool_calls, registryVars, memoryVars, gateVars>>

(***************************************************************************)
(* process_api_response, lines 175-192: the executor is called with the    *)
(* parsed arguments.  A payload that is not a mapping makes the call       *)
(* itself raise TypeError; otherwise the executor returns a dict, the call *)
(* raises (a missing or unexpected argument), or the operator interrupts   *)
(* it (KeyboardInterrupt is not an Exception and is not caught).           *)
(***************************************************************************)
ExecOutcomes(pa) ==
    IF pa = "array" THEN {"raise"} ELSE {"return", "raise", "interrupt"}

execute ==
    /\ pc = "execute"
    /\ LET call == tool_calls[idx]
           evs == Append(events, Event("exec", idx))
       IN \E outcome \in ExecOutcomes(parsed_args) :
            CASE outcome = "return" ->
                   \E tool_content \in ExecutorReturns(call.name) :
                      Finish(tool_content, evs)
              [] outcome = "raise" ->
                   IF CatchesExecutorFailure
                   THEN Finish(ExecFailedContent, Append(evs, Event("raised", idx)))
                   ELSE /\ Exit("error")
                        /\ events' = Append(evs, Event("raised", idx))
                        /\ UNCHANGED <<history, needs_another_call, idx, tool_results,
                                       parsed_args, reprompts>>
              [] outcome = "interrupt" ->
                   /\ Exit("interrupt")
                   /\ events' = evs
                   /\ UNCHANGED <<history, needs_another_call, idx, tool_results,
                                  parsed_args, reprompts>>
    /\ response' = NoInput
    /\ UNCHANGED <<interactive, api_response, tool_calls, approved, registryVars, memoryVars, gateVars>>

Next ==
    \/ run_interactive
    \/ call_api
    \/ dispatch
    \/ ask_for_approval
    \/ execute

Spec == Init /\ [][Next]_vars

(***************************************************************************)
(* run_single_pass (lines 281-294): main was given a prompt, and run_loop  *)
(* runs once.  The process is one thread that runs until it blocks, and    *)
(* every blocking call (the completion request, the prompt, the executor)  *)
(* returns: weak fairness of its steps.                                    *)
(***************************************************************************)
SinglePassInit == Init /\ ~interactive

SinglePassNext ==
    \/ call_api
    \/ dispatch
    \/ ask_for_approval
    \/ execute

SinglePassSpec ==
    SinglePassInit /\ [][SinglePassNext]_vars /\ WF_vars(SinglePassNext)

(***************************************************************************)
(* The life of the memory store.  main (toyagent.py, lines 326-342) enables *)
(* the store when --memory-file is given, the model then calls the five    *)
(* memory tools in any order and with any arguments, and the finally       *)
(* clause saves the store when the process ends.  The file outlives the    *)
(* process: the next process loads what the last one wrote.                *)
(***************************************************************************)
MemInit ==
    /\ LoopInit
    /\ GateOff
    /\ ~interactive
    /\ MEMORY_FILE_PATH = "None"
    /\ MEMORY_NODES = EmptyMap
    /\ memory_file \in InitialFiles
    /\ clock = 0
    /\ issued = {}
    /\ ever_ids = {}
    /\ mpc = "start"
    /\ mcall = NoCall
    /\ mresult = NoResult

Call(name, args) == [name |-> name, args |-> args]

\* variant of Untouched: the file is written again from the node map
Untouched_but_saved ==
    /\ memory_file' = save_memory_to_file(MEMORY_FILE_PATH, MEMORY_NODES, memory_file)
    /\ UNCHANGED <<MEMORY_NODES, clock, issued, ever_ids>>

\* the store and its file are as they were
Untouched == UNCHANGED <<MEMORY_NODES, memory_file, clock, issued, ever_ids>>

\* main, lines 326-332, and init_memory_system, lines 28-31
init_memory_system ==
    /\ mpc = "start"
    /\ \E memory_file_to_use \in {"None", "agent_memory.json"} :
         IF memory_file_to_use # "None"
         THEN /\ MEMORY_FILE_PATH' = memory_file_to_use
              /\ IF LoadFails(memory_file)
                 THEN \* the exception leaves main before its try block
                      /\ Exit("error")
                      /\ mpc' = "exited"
                      /\ UNCHANGED MEMORY_NODES
                 ELSE /\ MEMORY_NODES' = load_memory_from_file(memory_file_to_use,
                                                               memory_file)
                      /\ mpc' = "running"
                      /\ UNCHANGED <<pc, exit_kind>>
         ELSE /\ mpc' = "running"
              /\ UNCHANGED <<MEMORY_FILE_PATH, MEMORY_NODES, pc, exit_kind>>
    /\ ever_ids' = ever_ids \cup DOMAIN MEMORY_NODES'
    /\ UNCHANGED <<memory_file, clock, issued, mcall, mresult,
                   interactive, history, api_response, needs_another_call,
                   tool_calls, idx, tool_results, parsed_args, approved,
                   response, reprompts, events, registryVars, gateVars>>

\* create_memory_node, lines 371-390
create_memory_node ==
    /\ mpc = "running"
    /\ \E args \in CreateShapes :
         /\ mcall' = Call("create_memory_node", args)
         /\ IF ~Initialized(MEMORY_FILE_PATH)
            THEN /\ mresult' = NotInitialized("create_memory_node")
                 /\ Untouched
            ELSE /\ clock < MaxClock
                 /\ \E node_id \in generate_node_id :
                      LET timestamp == get_utc_iso_timestamp
                          node == Node(node_id, unique_tags(args.tags), args.content,
                                       args.source_chat, timestamp, timestamp)
                      IN  /\ MEMORY_NODES' = Put(MEMORY_NODES, node_id, node)
                          /\ memory_file' = save_memory_to_file(MEMORY_FILE_PATH,
                                                MEMORY_NODES', memory_file)
                          /\ clock' = clock + 1
                          /\ issued' = issued \cup {node_id}
                          /\ ever_ids' = ever_ids \cup {node_id}
                          /\ mresult' = [node_id |-> node_id, status |-> "created",
                                         node |-> node]
    /\ UNCHANGED <<MEMORY_FILE_PATH, mpc, loopVars, registryVars, gateVars>>

\* retrieve_memory_nodes, lines 392-415
retrieve_memory_nodes ==
    /\ mpc = "running"
    /\ \E args \in RetrieveShapes :
         /\ mcall' = Call("retrieve_memory_nodes", args)
         /\ mresult' = IF ~Initialized(MEMORY_FILE_PATH)
                       THEN NotInitialized("retrieve_memory_nodes")
                       ELSE RetrieveResult(MEMORY_NODES, args)
    /\ Untouched
    /\ UNCHANGED <<MEMORY_FILE_PATH, mpc, loopVars, registryVars, gateVars>>

\* update_memory_node, lines 417-453
update_memory_node ==
    /\ mpc = "running"
    /\ \E node_id \in DOMAIN MEMORY_NODES \cup {MissingId}, shape \in UpdateShapes :
         LET args == [node_id |-> node_id, new_content |-> shape.new_content,
                      add_tags |-> shape.add_tags, remove_tags |-> shape.remove_tags]
         IN
         /\ mcall' = Call("update_memory_node", args)
         /\ IF ~Initialized(MEMORY_FILE_PATH)
            THEN /\ mresult' = NotInitialized("update_memory_node")
                 /\ Untouched
            ELSE IF node_id \notin DOMAIN MEMORY_NODES
            THEN /\ mresult' = NotFound(node_id)
                 /\ Untouched
            ELSE LET node == [MEMORY_NODES[node_id] EXCEPT
                                !.content = NewContent(MEMORY_NODES[node_id], args),
                                !.tags = sorted(TagsLeft(MEMORY_NODES[node_id], args))]
                     fields == updated_fields(MEMORY_NODES[node_id], args)
                 IN  IF fields # <<>>
                     THEN /\ clock < MaxClock
                          /\ MEMORY_NODES' = Put(MEMORY_NODES, node_id,
                                                 Touch(node, get_utc_iso_timestamp))
                          /\ memory_file' = save_memory_to_file(MEMORY_FILE_PATH,
                                                MEMORY_NODES', memory_file)
                          /\ clock' = clock + 1
                          /\ mresult' = [node_id |-> node_id, status |-> "updated",
                                         updated_fields |-> fields,
                                         node |-> MEMORY_NODES'[node_id]]
                          /\ UNCHANGED <<issued, ever_ids>>
                     ELSE /\ MEMORY_NODES' = Put(MEMORY_NODES, node_id, node)
                          /\ mresult' = [node_id |-> node_id,
                                         status |-> "no_changes_made", node |-> node]
                          /\ UNCHANGED <<memory_file, clock, issued, ever_ids>>
    /\ UNCHANGED <<MEMORY_FILE_PATH, mpc, loopVars, registryVars, gateVars>>

\* delete_memory_node, lines 455-466
delete_memory_node ==
    /\ mpc = "running"
    /\ \E node_id \in DOMAIN MEMORY_NODES \cup {MissingId} :
         /\ mcall' = Call("delete_memory_node", [node_id |-> node_id])
         /\ IF ~Initialized(MEMORY_FILE_PATH)
            THEN /\ mresult' = NotInitialized("delete_memory_node")
                 /\ Untouched
            ELSE IF node_id \in DOMAIN MEMORY_NODES
            THEN /\ MEMORY_NODES' = Del(MEMORY_NODES, node_id)
                 /\ memory_file' = save_memory_to_file(MEMORY_FILE_PATH,
                                       MEMORY_NODES', memory_file)
                 /\ mresult' = [node_id |-> node_id, status |-> "deleted",
                                details |-> Preview(node_id, MEMORY_NODES[node_id])]
                 /\ UNCHANGED <<clock, issued, ever_ids>>
            ELSE /\ mresult' = NotFound(node_id)
                 /\ Untouched
    /\ UNCHANGED <<MEMORY_FILE_PATH, mpc, loopVars, registryVars, gateVars>>

\* list_memory_nodes, lines 468-494
list_memory_nodes ==
    /\ mpc = "running"
    /\ \E args \in ListShapes :
         /\ mcall' = Call("list_memory_nodes", args)
         /\ mresult' = IF ~Initialized(MEMORY_FILE_PATH)
                       THEN NotInitialized("list_memory_nodes")
                       ELSE ListResult(MEMORY_NODES, args)
    /\ Untouched
    /\ UNCHANGED <<MEMORY_FILE_PATH, mpc, loopVars, registryVars, gateVars>>

\* variant of SavedOnExit: the save follows the try block only when the
\* session returned
SavedOnExit_on_return(kind) == kind \in {"finished", "quit"}

\* main, lines 334-342: the save stands in the finally clause of the try
\* block that runs the session, so it runs however the session ended
SavedOnExit(kind) == TRUE

\* main, lines 339-342: the finally clause, and the end of the process
save_on_exit ==
    /\ mpc = "running"
    /\ \E kind \in {"finished", "quit", "interrupt", "error"} :
         /\ Exit(kind)
         /\ memory_file' = IF SavedOnExit(kind)
                           THEN save_memory_to_file(MEMORY_FILE_PATH, MEMORY_NODES,
                                                    memory_file)
                           ELSE memory_file
    /\ mpc' = "exited"
    /\ mcall' = NoCall
    /\ mresult' = NoResult
    /\ UNCHANGED <<MEMORY_FILE_PATH, MEMORY_NODES, clock, issued, ever_ids,
                   interactive, history, api_response, needs_another_call,
                   tool_calls, idx, tool_results, parsed_args, approved,
                   response, reprompts, events, registryVars, gateVars>>

\* The program is started again: a new process, whose globals have the
\* values of lines 22-23, and the file the last process left.
relaunch ==
    /\ mpc = "exited"
    /\ mpc' = "start"
    /\ pc' = "call_api"
    /\ exit_kind' = "running"
    /\ MEMORY_FILE_PATH' = "None"
    /\ MEMORY_NODES' = EmptyMap
    /\ UNCHANGED <<memory_file, clock, issued, ever_ids, mcall, mresult,
                   interactive, history, api_response, needs_another_call,
                   tool_calls, idx, tool_results, parsed_args, approved,
                   response, reprompts, events, registryVars, gateVars>>

MemNext ==
    \/ init_memory_system
    \/ create_memory_node
    \/ retrieve_memory_nodes
    \/ update_memory_node
    \/ delete_memory_node
    \/ list_memory_nodes
    \/ save_on_exit
    \/ relaunch

MemSpec == MemInit /\ [][MemNext]_vars

(***************************************************************************)
(* The approval check of process_api_response (toyagent.py, lines          *)
(* 163-172), taken alone: which text the gate is handed for a call of a    *)
(* dangerous tool, for every tool of DANGEROUS_TOOL_INFO and for argument  *)
(* objects that hold the detail argument, another argument, both or none.  *)
(* A text is [chars |-> s] for the characters s, and [dumps |-> d] for the *)
(* JSON text json.dumps writes for the dictionary d.                       *)
(***************************************************************************)
Text(s) == [chars |-> s]

\* the values the arguments of the model take
ArgValues == {Text("ls"), Text(""), Text("None")}

\* an argument of each tool that is not its detail argument
OtherArg == "timeout"

\* the argument objects of a call of the tool: every choice of values for
\* its detail argument and the other argument, each present or not
ArgShapes(function_name) ==
    LET names == {DangerousInfo[function_name].detail_arg, OtherArg}
    IN  UNION {[present -> ArgValues] : present \in SUBSET names}

\* dict.get (line 168): None when the key is missing
get(d, key) == IF key \in DOMAIN d THEN Some(d[key]) ELSE None

\* json.dumps(parsed_args) (line 169)
json_dumps(d) == [dumps |-> d]

\* str (line 171) of a text or of None
str(x) == IF x = None THEN Text("None") ELSE x[1]

\* line 170: the raw value for execute_python_code, else approval_details
details_to_show(function_name, detail_arg_name, approval_details_raw, approval_details) ==
    IF function_name = "execute_python_code" /\ detail_arg_name = "code"
    THEN approval_details_raw
    ELSE Some(approval_details)

GateInit ==
    /\ LoopInit
    /\ MemoryOff
    /\ gate_pc = "check"
    /\ \E function_name \in DOMAIN DangerousInfo :
         \E args \in ArgShapes(function_name) :
            gate_call = [name |-> function_name, args |-> args]
    /\ action_description = "none"
    /\ details = Text("none")

\* process_api_response, lines 165-171: the approval check up to the call
\* of ask_for_approval
approval_check ==
    /\ gate_pc = "check"
    /\ gate_call.name \in DANGEROUS_TOOLS
    /\ LET function_name == gate_call.name
           info == DANGEROUS_TOOL_INFO[function_name]
           action_desc == info.desc
           detail_arg_name == info.detail_arg
           approval_details_raw == get(gate_call.args, detail_arg_name)
           approval_details == IF approval_details_raw # None
                               THEN approval_details_raw[1]
                               ELSE json_dumps(gate_call.args)
       IN  /\ action_description' = action_desc
           /\ details' = str(details_to_show(function_name, detail_arg_name,
                                             approval_details_raw, approval_details))
    /\ gate_pc' = "asked"
    /\ UNCHANGED <<gate_call, loopVars, registryVars, memoryVars>>

GateNext == approval_check

GateSpec == GateInit /\ [][GateNext]_vars

TypeOK ==
    /\ interactive \in BOOLEAN
    /\ pc \in {"user_input", "call_api", "dispatch", "approval", "execute", "exited"}
    /\ exit_kind \in {"running", "quit", "finished", "interrupt", "error"}
    /\ api_response \in {"unset", "None", "reply"}
    /\ needs_another_call \in BOOLEAN
    /\ idx \in 0..Len(tool_calls)
    /\ approved \in BOOLEAN
    /\ reprompts \in 0..MaxReprompts

(***************************************************************************)
(* Properties.                                                             *)
(***************************************************************************)
Last(seq) == seq[Len(seq)]

EventsOf(i) == {events[p].kind : p \in {q \in 1..Len(events) : events[q].call = i}}

\* Every tool-call request of every assistant turn of h is answered by the
\* tool turns that follow it, in the order of the requests, and by no other.
Answered(h) ==
    \A k \in 1..Len(h) :
       h[k].role = "assistant" =>
          LET n == Len(h[k].tool_calls)
          IN /\ k + n <= Len(h)
             /\ \A j \in 1..n :
                  /\ h[k + j].role = "tool"
                  /\ h[k + j].tool_call_id = h[k].tool_calls[j].id
                  /\ h[k + j].name = h[k].tool_calls[j].name
                  /\ Cardinality({m \in 1..Len(h) :
                                    /\ h[m].role = "tool"
                                    /\ h[m].tool_call_id = h[k].tool_calls[j].id}) = 1
             /\ k + n + 1 <= Len(h) => h[k + n + 1].role # "tool"

\* C1: whenever run_loop issues a model request, every tool-call request of
\* every earlier assistant turn is answered by exactly one tool turn with the
\* same call id and tool name, the tool turns following the assistant turn in
\* the order of the requests.
C1_EveryRequestAnswered ==
    pc = "call_api" => Answered(history)

\* A request is issued after a batch of two calls that ended in two different
\* dispatch errors.
C1_Witness ==
    /\ pc = "call_api"
    /\ \E k \in 1..Len(history) :
          /\ history[k].role = "assistant"
          /\ Len(history[k].tool_calls) = 2
          /\ k + 2 = Len(history)
          /\ history[k + 1].content.error # "None"
          /\ history[k + 2].content.error # "None"
          /\ history[k + 1].content.error # history[k + 2].content.error

\* C2: when the approval gate returns false for a call, the executor is not
\* invoked for that call and its result is the error 'Action denied by user.'
\* with code -4; an empty input line is such a denial.
C2_DenialSkipsExecutor ==
    /\ \A j \in 1..Len(tool_calls) :
          "denied" \in EventsOf(j) =>
             /\ "exec" \notin EventsOf(j)
             /\ j <= Len(tool_results)
             /\ tool_results[j].content = [error |-> "Action denied by user.", exit_code |-> -4]
    /\ (response.kind = "line" /\ response.text = <<>>) =>
          /\ ~approved
          /\ tool_results # <<>>
          /\ Last(tool_results).content = [error |-> "Action denied by user.", exit_code |-> -4]
          /\ "exec" \notin EventsOf(Len(tool_results))

\* The operator answered the prompt of a dangerous tool with an empty line.
C2_Witness ==
    /\ response.kind = "line"
    /\ response.text = <<>>
    /\ tool_results # <<>>
    /\ Last(tool_results).name \in {"execute_shell_command"}
    /\ "denied" \in EventsOf(Len(tool_results))

\* What "normalizes to" means, stated on the characters of the line: one
\* letter, in either case, with nothing but blanks around it.
Blank(text, S) == \A k \in S : text[k] = " "

IsLetter(text, lower, upper) ==
    \E k \in 1..Len(text) :
       /\ text[k] \in {lower, upper}
       /\ Blank(text, (1..Len(text)) \ {k})

\* C3: ask_for_approval resolves to a boolean and does not raise: it returns
\* true only when the line read normalizes to 'y', false when it normalizes to
\* 'n' or to the empty line or when the input is closed or interrupted, and
\* every other line re-prompts without returning.
C3_GateResolves ==
    [][pc = "approval" =>
         LET r == response'
             yes == r.kind = "line" /\ IsLetter(r.text, "y", "Y")
             no == \/ r.kind \in {"eof", "interrupt"}
                   \/ r.kind = "line" /\ IsLetter(r.text, "n", "N")
                   \/ r.kind = "line" /\ Blank(r.text, 1..Len(r.text))
         IN /\ r.kind \in {"line", "eof", "interrupt"}
            /\ exit_kind' = "running"
            /\ (pc' = "approval") <=> (~yes /\ ~no)
            /\ (pc' # "approval") => (approved' \in BOOLEAN /\ (approved' <=> yes))
            /\ (pc' = "approval") => UNCHANGED <<approved, events, tool_results, history>>
      ]_vars

\* The gate returned true on a padded upper-case Y, after a re-prompt.
C3_Witness ==
    /\ pc = "execute"
    /\ approved
    /\ reprompts >= 1
    /\ response = [kind |-> "line", text |-> <<" ", "Y", " ">>]

Registered(name) ==
    name \in {"execute_shell_command", "read_file", "write_file", "copy_file",
              "list_directory", "create_directory", "fetch_web_page", "ask_user",
              "execute_python_code", "create_memory_node", "retrieve_memory_nodes",
              "update_memory_node", "delete_memory_node", "list_memory_nodes"}

\* C4: a failure raised by an executor becomes the result 'Tool execution
\* failed' with code -7 and does not leave the loop: right after it the loop
\* is dispatching the next call of the batch, or, after the last call, the
\* results are in the history and the next model request is issued.
C4_ExecutorFailureContained ==
    \A j \in 1..Len(tool_calls) :
       "raised" \in EventsOf(j) =>
          /\ j <= Len(tool_results)
          /\ tool_results[j].tool_call_id = tool_calls[j].id
          /\ tool_results[j].content = [error |-> "Tool execution failed", exit_code |-> -7]
          /\ (Last(events) = Event("result", j) /\ api_response = "reply"
                /\ exit_kind = "running") =>
                IF j < Len(tool_calls)
                THEN pc \in {"dispatch", "execute"} /\ idx = j + 1
                ELSE /\ pc = "call_api"
                     /\ needs_another_call
                     /\ Len(history) >= Len(tool_results)
                     /\ SubSeq(history, Len(history) - Len(tool_results) + 1, Len(history))
                           = tool_results

\* The executor of the first call of a batch of two raised, and the second
\* call was dispatched and produced its result.
C4_Witness ==
    /\ Len(tool_calls) = 2
    /\ "raised" \in EventsOf(1)
    /\ "exec" \in EventsOf(2)
    /\ "result" \in EventsOf(2)
    /\ pc = "call_api"

\* C5: a call whose name is not in the registry gets exactly one result, the
\* 'Unsupported function' error with code -6; neither the approval prompt nor
\* an executor is invoked for it, and the registry stays as it was built.
C5_UnknownToolRejected ==
    /\ TOOL_EXECUTORS = ExecutorNames
    /\ DANGEROUS_TOOL_INFO = DangerousInfo
    /\ \A j \in 1..Len(tool_calls) :
          ~Registered(tool_calls[j].name) =>
             /\ EventsOf(j) \subseteq {"result"}
             /\ ("result" \in EventsOf(j)) <=> (j <= Len(tool_results))
             /\ Cardinality({p \in 1..Len(events) : events[p] = Event("result", j)}) <= 1
             /\ (idx > j \/ pc = "call_api") => j <= Len(tool_results)
             /\ j <= Len(tool_results) =>
                   /\ tool_results[j].tool_call_id = tool_calls[j].id
                   /\ tool_results[j].name = tool_calls[j].name
                   /\ tool_results[j].content = [error |-> "Unsupported function", exit_code |-> -6]

\* A call to an unknown tool was answered.
C5_Witness ==
    \E j \in 1..Len(tool_results) :
       /\ tool_calls[j].name = "nonexistent"
       /\ tool_calls[j].arguments = "obj"
       /\ tool_results[j].content.exit_code = -6

\* C6 as stated: a call whose payload does not parse gets the
\* invalid-arguments result with code -5, whether or not its name is
\* registered, and neither the gate nor an executor is invoked for it.
C6_Original ==
    \A j \in 1..Len(tool_calls) :
       tool_calls[j].arguments = "malformed" =>
          /\ EventsOf(j) \subseteq {"result"}
          /\ j <= Len(tool_results) =>
                tool_results[j].content =
                   [error |-> "Invalid arguments provided to tool.", exit_code |-> -5]

\* C6 (amended): a call whose payload does not parse invokes neither the gate
\* nor an executor; its result is the invalid-arguments error with code -5
\* when its name is registered, and the 'Unsupported function' error with
\* code -6 when it is not.
C6_UnparsableArguments ==
    \A j \in 1..Len(tool_calls) :
       tool_calls[j].arguments = "malformed" =>
          /\ EventsOf(j) \subseteq {"result"}
          /\ (idx > j \/ pc = "call_api") => j <= Len(tool_results)
          /\ j <= Len(tool_results) =>
                tool_results[j].content =
                   IF Registered(tool_calls[j].name)
                   THEN [error |-> "Invalid arguments provided to tool.", exit_code |-> -5]
                   ELSE [error |-> "Unsupported function", exit_code |-> -6]

\* A call to a dangerous registered tool with an unparsable payload was
\* answered.
C6_Witness ==
    \E j \in 1..Len(tool_results) :
       /\ tool_calls[j].name = "execute_shell_command"
       /\ tool_calls[j].arguments = "malformed"
       /\ tool_results[j].content.exit_code = -5

\* The failure class of the call at position j of the batch, from the path it
\* took ("none" when it did not fail in dispatch).
FailureClass(j) ==
    IF ~Registered(tool_calls[j].name) THEN "unsupported"
    ELSE IF tool_calls[j].arguments = "malformed" THEN "invalid"
    ELSE IF "denied" \in EventsOf(j) THEN "denied"
    ELSE IF "raised" \in EventsOf(j) THEN "crashed"
    ELSE "none"

\* C7: the code of a failed call depends only on its failure class (-5
\* invalid arguments, -6 unsupported tool, -4 denied, -7 executor crash), and
\* two results of different failure classes never carry the same code.
C7_DistinctSentinelCodes ==
    LET failed == {j \in 1..Len(tool_results) : FailureClass(j) # "none"}
        code(j) == tool_results[j].content.exit_code
    IN /\ \A j \in failed :
            /\ "exit_code" \in DOMAIN tool_results[j].content
            /\ FailureClass(j) = "invalid" => code(j) = -5
            /\ FailureClass(j) = "unsupported" => code(j) = -6
            /\ FailureClass(j) = "denied" => code(j) = -4
            /\ FailureClass(j) = "crashed" => code(j) = -7
       /\ \A j1, j2 \in failed :
            FailureClass(j1) # FailureClass(j2) => code(j1) # code(j2)
       /\ \A j1, j2 \in failed :
            FailureClass(j1) = FailureClass(j2) => code(j1) = code(j2)

\* A batch holds the results of a denied call and of a crashed executor.
C7_Witness ==
    /\ Len(tool_results) = 2
    /\ FailureClass(1) = "denied"
    /\ FailureClass(2) = "crashed"

InLoop == pc \in {"call_api", "dispatch", "approval", "execute"}

\* C8: run_loop issues another model request exactly when the last
\* successful reply carried at least one tool-call request, it returns after
\* the first reply without tool-call requests, and it terminates when the
\* model sends such a reply and every prompt and executor returns (the
\* bounds on the calls the model sends and on the invalid lines at a prompt).
C8_LoopContinuesOnToolCalls ==
    /\ [](\* a request is issued first, or after the results of a reply with calls
          /\ pc = "call_api" =>
                \/ Last(history).role = "user"
                \/ /\ Last(history).role = "tool"
                   /\ api_response = "reply"
                   /\ tool_calls # <<>>
                   /\ Len(tool_results) = Len(tool_calls)
          \* after a reply with calls whose batch is complete, a request is issued
          /\ (Last(history).role = "tool" /\ api_response = "reply"
                /\ exit_kind = "running") => pc = "call_api"
          \* after a reply with calls, the batch is dispatched
          /\ (Last(history).role = "assistant" /\ Last(history).tool_calls # <<>>
                /\ exit_kind = "running") => pc \in {"dispatch", "approval", "execute"}
          \* after a reply without calls, run_loop has returned
          /\ (Last(history).role = "assistant" /\ Last(history).tool_calls = <<>>) =>
                /\ ~InLoop
                /\ ~needs_another_call
          \* run_loop returns only after such a reply or a failed request
          /\ ((pc = "user_input" /\ api_response # "unset") \/ exit_kind = "finished") =>
                \/ api_response = "None"
                \/ /\ Last(history).role = "assistant"
                   /\ Last(history).tool_calls = <<>>)
    /\ (InLoop ~> ~InLoop)

\* run_loop returned after a second request that followed a batch of results.
C8_Witness ==
    /\ exit_kind = "finished"
    /\ Len(history) >= 5
    /\ Last(history).role = "assistant"
    /\ Last(history).tool_calls = <<>>
    /\ history[Len(history) - 1].role = "tool"

\* C9: a failed model request ends the turn: nothing is appended to the
\* history for it, no second request is issued, and in interactive mode the
\* session is back at the operator's prompt.
C9_FailedRequestEndsTurn ==
    /\ [][(pc = "call_api" /\ api_response' = "None") =>
             /\ history' = history
             /\ ~needs_another_call'
             /\ pc' = IF interactive THEN "user_input" ELSE "exited"
             /\ exit_kind' = IF interactive THEN "running" ELSE "finished"
         ]_vars
    /\ [](api_response = "None" =>
             /\ pc \in {"user_input", "exited"}
             /\ (interactive /\ exit_kind = "running") => pc = "user_input")

\* After a failed request the operator typed the next request, which was sent.
C9_Witness ==
    /\ interactive
    /\ pc = "call_api"
    /\ Len(history) = 3
    /\ history[2].role = "user"
    /\ history[3].role = "user"

EventRank(kind) ==
    CASE kind = "ask" -> 1
      [] kind \in {"approved", "denied"} -> 2
      [] kind = "exec" -> 3
      [] kind = "raised" -> 4
      [] kind = "result" -> 5

\* C10: the calls of a batch are dispatched one at a time in the order
\* received: the prompt and the executor of a call start only after the call
\* before it has its result, and no model request is issued while a call of
\* the batch has no result.
C10_SequentialDispatch ==
    /\ \A p, q \in 1..Len(events) :
          p < q =>
             /\ events[p].call <= events[q].call
             /\ events[p].call = events[q].call =>
                   EventRank(events[p].kind) < EventRank(events[q].kind)
    /\ \A p \in 1..Len(events) :
          (events[p].kind \in {"ask", "exec"} /\ events[p].call > 1) =>
             \E q \in 1..(p - 1) : events[q] = Event("result", events[p].call - 1)
    /\ pc \in {"approval", "execute"} =>
          /\ idx \in 1..Len(tool_calls)
          /\ Len(tool_results) = idx - 1
          /\ \A j \in 1..(idx - 1) : "result" \in EventsOf(j)
    /\ pc = "call_api" =>
          /\ Len(tool_results) = Len(tool_calls)
          /\ \A j \in 1..Len(tool_calls) : "result" \in EventsOf(j)

\* Two dangerous calls of one batch were each approved and executed, the
\* second after the first.
C10_Witness ==
    /\ pc = "call_api"
    /\ Len(tool_calls) = 2
    /\ [p \in 1..Len(events) |-> events[p].kind] =
          <<"ask", "approved", "exec", "result", "ask", "approved", "exec", "result">>
    /\ [p \in 1..Len(events) |-> events[p].call] = <<1, 1, 1, 1, 2, 2, 2, 2>>

(***************************************************************************)
(* Properties of the memory store, checked under MemSpec.                  *)
(***************************************************************************)
MemoryTools ==
    {"create_memory_node", "retrieve_memory_nodes", "update_memory_node",
     "delete_memory_node", "list_memory_nodes"}

\* a step of MemSpec that is a call of the memory tool of that name
Called(name) == mpc = "running" /\ mpc' = "running" /\ mcall'.name = name

IsError(result) == "error" \in DOMAIN result

\* C11: while no memory file path is configured, every call of create,
\* retrieve, update, delete and list, whatever its arguments, returns the
\* "not initialized" error and leaves the node map and the file as they were.
C11_DisabledStoreIsInert ==
    [][(mpc = "running" /\ mpc' = "running" /\ MEMORY_FILE_PATH = "None") =>
          /\ mcall'.name \in MemoryTools
          /\ mresult' = NotInitialized(mcall'.name)
          /\ MEMORY_NODES' = MEMORY_NODES
          /\ memory_file' = memory_file]_vars

\* a process without --memory-file has answered a create, next to a file
\* that holds nodes
C11_Witness ==
    /\ mpc = "running"
    /\ MEMORY_FILE_PATH = "None"
    /\ mcall.name = "create_memory_node"
    /\ mresult = NotInitialized("create_memory_node")
    /\ memory_file.kind = "object"
    /\ DOMAIN FileNodes(memory_file) # {}
    /\ MEMORY_NODES = EmptyMap

\* the list has no duplicates and is in sorted order
StrictlySorted(tags) ==
    \A i, j \in DOMAIN tags : i < j => TagRank(tags[i]) < TagRank(tags[j])

C13_UpdatedNotBeforeCreated ==
    \A k \in DOMAIN MEMORY_NODES :
        MEMORY_NODES[k].updated_at >= MEMORY_NODES[k].created_at

\* C14: in every state of the store, also right after init loaded the file,
\* the tag list of every node has no duplicates and is in sorted order.
C14_TagsSortedWithoutDuplicates ==
    \A k \in DOMAIN MEMORY_NODES : StrictlySorted(MEMORY_NODES[k].tags)

\* C15: no step changes the node_id field or the created_at of a node that
\* is in the map before and after it, and a node stays under its key: the
\* same holds of the nodes of the file from one content to the next, and
\* init loads them as they are.
C15_IdAndCreationFixed ==
    [][/\ \A k \in DOMAIN MEMORY_NODES \cap DOMAIN MEMORY_NODES' :
            /\ MEMORY_NODES'[k].node_id = MEMORY_NODES[k].node_id
            /\ MEMORY_NODES'[k].created_at = MEMORY_NODES[k].created_at
       /\ \A k \in DOMAIN FileNodes(memory_file) \cap DOMAIN FileNodes(memory_file') :
            /\ FileNodes(memory_file')[k].node_id = FileNodes(memory_file)[k].node_id
            /\ FileNodes(memory_file')[k].created_at = FileNodes(memory_file)[k].created_at
       /\ (mpc = "start" /\ MEMORY_FILE_PATH' # "None") =>
            \A k \in DOMAIN MEMORY_NODES' :
                /\ k \in DOMAIN FileNodes(memory_file)
                /\ MEMORY_NODES'[k].node_id = FileNodes(memory_file)[k].node_id
                /\ MEMORY_NODES'[k].created_at = FileNodes(memory_file)[k].created_at]_vars

\* an update has renewed updated_at on a store of two nodes
C15_Witness ==
    /\ mcall.name = "update_memory_node"
    /\ ~IsError(mresult)
    /\ mresult.status = "updated"
    /\ mresult.node.created_at < mresult.node.updated_at
    /\ Cardinality(DOMAIN MEMORY_NODES) >= 2

C17_EmptyTagsRejected ==
    (mcall.name = "retrieve_memory_nodes" /\ mcall.args.match_all_tags = <<>>) =>
        /\ IsError(mresult)
        /\ "nodes" \notin DOMAIN mresult

\* an empty tag list with a query and a limit, on an enabled store of two nodes
C17_Witness ==
    /\ mcall.name = "retrieve_memory_nodes"
    /\ mcall.args.match_all_tags = <<>>
    /\ mcall.args.query_in_content # None
    /\ mcall.args.limit # None
    /\ MEMORY_FILE_PATH # "None"
    /\ Cardinality(DOMAIN MEMORY_NODES) >= 2
    /\ mresult # NotInitialized("retrieve_memory_nodes")

\* the keys of the nodes a retrieve with these arguments is to consider: the
\* tag set is a superset of match_all_tags and, when a query is given, the
\* content contains it, case ignored
MatchingKeys(args) ==
    {k \in DOMAIN MEMORY_NODES :
        /\ Range(args.match_all_tags) \subseteq Range(MEMORY_NODES[k].tags)
        /\ args.query_in_content # None =>
             Contains(Lower(args.query_in_content[1]), Lower(MEMORY_NODES[k].content))}

Min(a, b) == IF a < b THEN a ELSE b
Max(a, b) == IF a < b THEN b ELSE a

\* the last call was a retrieve that got past the test of its tag list
Retrieved ==
    /\ mcall.name = "retrieve_memory_nodes"
    /\ MEMORY_FILE_PATH # "None"
    /\ mcall.args.match_all_tags # <<>>

\* C18: a retrieve with a non-empty match_all_tags returns the first `limit`
\* elements of the list of the matching nodes in descending order of
\* updated_at: the nodes returned match, are in that order, are as many as
\* the limit allows, and no matching node left out is newer than one returned.
C18_RetrieveReturnsFirstLimit ==
    Retrieved =>
        LET matching == {MEMORY_NODES[k] : k \in MatchingKeys(mcall.args)}
            limit == OrDefault(mcall.args.limit, DefaultRetrieveLimit)
            nodes == mresult.nodes
        IN  /\ Range(nodes) \subseteq matching
            /\ Len(nodes) = Max(0, Min(limit, Cardinality(matching)))
            /\ \A i, j \in DOMAIN nodes :
                 i < j => nodes[i].updated_at > nodes[j].updated_at
            /\ \A m \in matching \ Range(nodes) :
                 \A i \in DOMAIN nodes : m.updated_at <= nodes[i].updated_at

\* C19: a successful retrieve returns at most `limit` nodes, for every
\* integer limit (none when the limit is below one), and its count is the
\* number of nodes it returns.
C19_AtMostLimit ==
    Retrieved =>
        /\ Len(mresult.nodes) <= Max(0, OrDefault(mcall.args.limit, DefaultRetrieveLimit))
        /\ mresult.count = Len(mresult.nodes)

\* C20: an update of a node whose content and tag set are the same after the
\* call as before leaves updated_at and the file as they were and reports
\* "no changes"; only an update that changes one of them renews updated_at
\* and rewrites the file.
C20_UpdateOnlyOnChange ==
    [][(/\ Called("update_memory_node")
        /\ MEMORY_FILE_PATH # "None"
        /\ mcall'.args.node_id \in DOMAIN MEMORY_NODES
        /\ MEMORY_NODES'[mcall'.args.node_id].content
             = MEMORY_NODES[mcall'.args.node_id].content
        /\ Range(MEMORY_NODES'[mcall'.args.node_id].tags)
             = Range(MEMORY_NODES[mcall'.args.node_id].tags)) =>
          /\ MEMORY_NODES'[mcall'.args.node_id].updated_at
               = MEMORY_NODES[mcall'.args.node_id].updated_at
          /\ memory_file' = memory_file
          /\ mresult'.status = "no_changes_made"]_vars

\* the arguments of the update of the step, and the node it is about
UpdateArgs == mcall'.args

UpdatesNode ==
    /\ Called("update_memory_node")
    /\ MEMORY_FILE_PATH # "None"
    /\ UpdateArgs.node_id \in DOMAIN MEMORY_NODES

\* C21: an update of a node of the store that gives no new content, no tags
\* to add and no tags to remove reports "no changes" and leaves that node
\* (its content, tag list and updated_at with it), every other node and the
\* file as they were.
C21_EmptyUpdateChangesNothing ==
    [][(/\ UpdatesNode
        /\ UpdateArgs.new_content = None
        /\ UpdateArgs.add_tags = None
        /\ UpdateArgs.remove_tags = None) =>
          /\ mresult'.status = "no_changes_made"
          /\ MEMORY_NODES' = MEMORY_NODES
          /\ mresult'.node = MEMORY_NODES[UpdateArgs.node_id]
          /\ memory_file' = memory_file]_vars

\* C22: an update or a delete of an id that is no key of the store returns
\* the "not found" error and leaves the node map and the file as they were.
C22_UnknownIdNotFound ==
    [][(/\ Called("update_memory_node") \/ Called("delete_memory_node")
        /\ MEMORY_FILE_PATH # "None"
        /\ mcall'.args.node_id \notin DOMAIN MEMORY_NODES) =>
          /\ IsError(mresult')
          /\ mresult' = NotFound(mcall'.args.node_id)
          /\ MEMORY_NODES' = MEMORY_NODES
          /\ memory_file' = memory_file]_vars

\* an update with new content and a tag for an id that is not in a store of
\* two nodes
C22_Witness ==
    /\ mcall.name = "update_memory_node"
    /\ mcall.args.node_id \notin DOMAIN MEMORY_NODES
    /\ mcall.args.new_content # None
    /\ mcall.args.add_tags # None
    /\ MEMORY_FILE_PATH # "None"
    /\ mresult = NotFound(mcall.args.node_id)
    /\ Cardinality(DOMAIN MEMORY_NODES) >= 2

\* the last call was a retrieve or a list that returned nodes
ReturnedNodes ==
    /\ mcall.name \in {"retrieve_memory_nodes", "list_memory_nodes"}
    /\ "nodes" \in DOMAIN mresult

Listed ==
    /\ mcall.name = "list_memory_nodes"
    /\ MEMORY_FILE_PATH # "None"

\* the keys of the nodes a list with this filter is to consider: all of
\* them, or those whose tag set is a superset of the filter when one is given
ListedKeys(args) ==
    {k \in DOMAIN MEMORY_NODES :
        Truthy(args.filter_match_all_tags) =>
            Range(args.filter_match_all_tags[1]) \subseteq Range(MEMORY_NODES[k].tags)}

\* C24: a list with limit L and offset O (not below zero) over the N
\* matching nodes returns max(0, min(L, N - O)) nodes, the elements
\* O+1 .. O+L of the matching nodes in descending order of updated_at, and
\* total_matching is N.
C24_ListReturnsSlice ==
    (Listed /\ OrDefault(mcall.args.offset, DefaultListOffset) >= 0) =>
        LET matching == {MEMORY_NODES[k] : k \in ListedKeys(mcall.args)}
            N == Cardinality(matching)
            L == OrDefault(mcall.args.limit, DefaultListLimit)
            O == OrDefault(mcall.args.offset, DefaultListOffset)
            nodes == mresult.nodes
        IN  /\ mresult.total_matching = N
            /\ Len(nodes) = Max(0, Min(L, N - O))
            /\ mresult.count_returned = Len(nodes)
            /\ Range(nodes) \subseteq matching
            /\ \A i, j \in DOMAIN nodes :
                 i < j => nodes[i].updated_at > nodes[j].updated_at
            \* exactly O matching nodes are newer than the first one returned
            /\ nodes # <<>> =>
                 Cardinality({m \in matching : m.updated_at > nodes[1].updated_at}) = O
            \* and none lies between two that are returned
            /\ \A m \in matching \ Range(nodes) : \A i, j \in DOMAIN nodes :
                 ~(nodes[i].updated_at > m.updated_at /\ m.updated_at > nodes[j].updated_at)

\* a step of MemSpec that is a call which changed the store of an enabled
\* memory system
Mutated ==
    \/ Called("create_memory_node") /\ ~IsError(mresult')
    \/ Called("update_memory_node") /\ ~IsError(mresult') /\ mresult'.status = "updated"
    \/ Called("delete_memory_node") /\ ~IsError(mresult')

Unusable(file) == file.kind \in {"absent", "malformed", "nonobject"}

\* C27: the init of the store does not fail: with a backing file that is
\* absent, is not JSON or holds a JSON value that is no object, the process
\* goes on with an empty node map, and the five operations then do what they
\* do on an empty store: create adds its node and writes the file, retrieve
\* and list return no node, update and delete report the id as not found.
C27_InitNeverFails ==
    /\ [][(mpc = "start" /\ mpc' # "start" /\ MEMORY_FILE_PATH' # "None"
           /\ Unusable(memory_file)) =>
             /\ mpc' = "running"
             /\ exit_kind' = "running"
             /\ MEMORY_NODES' = EmptyMap]_vars
    /\ [][(\E name \in MemoryTools : Called(name)) /\ MEMORY_FILE_PATH # "None"
           /\ Unusable(memory_file) =>
             LET args == mcall'.args
             IN  /\ MEMORY_NODES = EmptyMap
                 /\ mresult' # NotInitialized(mcall'.name)
                 /\ Called("create_memory_node") =>
                      /\ mresult'.status = "created"
                      /\ DOMAIN MEMORY_NODES' = {mresult'.node_id}
                      /\ MEMORY_NODES'[mresult'.node_id] = mresult'.node
                      /\ FileHolds(memory_file', MEMORY_NODES')
                 /\ Called("retrieve_memory_nodes") =>
                      /\ args.match_all_tags # <<>> => mresult' = [nodes |-> <<>>, count |-> 0]
                      /\ args.match_all_tags = <<>> => IsError(mresult')
                 /\ Called("list_memory_nodes") =>
                      /\ mresult'.nodes = <<>>
                      /\ mresult'.total_matching = 0
                      /\ mresult'.count_returned = 0
                 /\ (Called("update_memory_node") \/ Called("delete_memory_node")) =>
                      mresult' = NotFound(args.node_id)
                 /\ ~Called("create_memory_node") =>
                      MEMORY_NODES' = MEMORY_NODES /\ memory_file' = memory_file]_vars

\* a process that found a file that is not JSON runs with an enabled, empty
\* store and has answered a list call
C27_Witness ==
    /\ mpc = "running"
    /\ MEMORY_FILE_PATH # "None"
    /\ memory_file.kind = "malformed"
    /\ MEMORY_NODES = EmptyMap
    /\ mcall.name = "list_memory_nodes"
    /\ ~IsError(mresult)
    /\ mresult.total_matching = 0

\* C28: the history of a session only grows at its end: every step of the
\* loop, the user turn, the assistant turn and the tool turns alike, leaves
\* the turns the history had where they were and as they were, so the
\* history of a session is an extension of each of its earlier histories.
C28_HistoryAppendOnly ==
    [][/\ Len(history') >= Len(history)
       /\ SubSeq(history', 1, Len(history)) = history]_vars

\* a session whose history holds, after the system prompt, a user turn, an
\* assistant turn with tool calls, the tool turns and a second user turn
C28_Witness ==
    /\ interactive
    /\ Len(history) >= 5
    /\ history[1] = SystemTurn
    /\ history[2] = UserTurn
    /\ history[3].role = "assistant"
    /\ history[3].tool_calls # <<>>
    /\ history[4].role = "tool"
    /\ history[Len(history)] = UserTurn

\* C29: for each of the six dangerous tools, execute_python_code among them,
\* the text handed to the approval gate is the value of the detail argument
\* of the tool when the arguments hold it, and the whole argument payload
\* when they do not.
C29_GateShowsDetailOrPayload ==
    gate_pc = "asked" =>
        LET detail_arg_name == DangerousInfo[gate_call.name].detail_arg
        IN  details = IF detail_arg_name \in DOMAIN gate_call.args
                      THEN gate_call.args[detail_arg_name]
                      ELSE json_dumps(gate_call.args)

\* the tags an update asks to add, and to remove
AddTags == IF UpdateArgs.add_tags = None THEN {} ELSE Range(UpdateArgs.add_tags[1])
RemoveTags == IF UpdateArgs.remove_tags = None THEN {} ELSE Range(UpdateArgs.remove_tags[1])

C31_NonObjectArgumentsInvalid ==
    \A j \in 1..Len(tool_calls) :
       (Registered(tool_calls[j].name) /\ tool_calls[j].arguments = "array") =>
          /\ "ask" \notin EventsOf(j)
          /\ ~(exit_kind = "error" /\ idx = j /\ j > Len(tool_results))
          /\ Cardinality({p \in 1..Len(events) : events[p] = Event("result", j)}) <= 1
          /\ j <= Len(tool_results) =>
                tool_results[j].content =
                   [error |-> "Invalid arguments provided to tool.", exit_code |-> -5]

\* two list calls name the same filter (an empty filter is no filter)
SameFilter(a, b) ==
    \/ a.filter_match_all_tags = b.filter_match_all_tags
    \/ ~Truthy(a.filter_match_all_tags) /\ ~Truthy(b.filter_match_all_tags)

\* C32: retrieve and list change nothing: whatever their arguments, the node
\* map with all fields of all nodes and the backing file are after the call
\* what they were before it.  The total_matching of a list is the number of
\* nodes of the map that match the filter, so a list call that follows a list
\* call with the same filter, with no other call between them, reports the
\* same total_matching, whatever limit and offset the two calls give.
C32_ReadsChangeNothing ==
    /\ [][(Called("retrieve_memory_nodes") \/ Called("list_memory_nodes")) =>
             /\ MEMORY_NODES' = MEMORY_NODES
             /\ memory_file' = memory_file
             /\ MEMORY_FILE_PATH' = MEMORY_FILE_PATH]_vars
    /\ [](Listed => mresult.total_matching = Cardinality(ListedKeys(mcall.args)))
    /\ [][(/\ Listed
           /\ Called("list_memory_nodes")
           /\ SameFilter(mcall.args, mcall'.args)) =>
             mresult'.total_matching = mresult.total_matching]_vars

\* a list with a negative limit was answered on a store of two or more
\* nodes, which the file holds as before
C32_Witness ==
    /\ Listed
    /\ mcall.args.limit = Some(-1)
    /\ mresult.total_matching >= 2
    /\ mresult.count_returned >= 1
    /\ Cardinality(DOMAIN MEMORY_NODES) >= 2
    /\ FileHolds(memory_file, MEMORY_NODES)

\* the positions of the log of the batch where the gate was invoked for call j
Asks(j) == {p \in 1..Len(events) : events[p] = Event("ask", j)}

\* call j names a dangerous tool of the registry and its payload is an object
Gated(j) ==
    /\ Registered(tool_calls[j].name)
    /\ tool_calls[j].name \in DOMAIN DangerousInfo
    /\ tool_calls[j].arguments = "obj"

\* the dispatch of call j has passed the approval check
PastApprovalCheck(j) ==
    \/ j = idx /\ pc \in {"approval", "execute"}
    \/ "result" \in EventsOf(j)

\* C33: the approval gate is invoked exactly once for each call of a
\* dangerous tool of the registry whose arguments are an object, and before
\* the executor of that call, which runs only after the gate has approved.
\* It is not invoked for a call of a tool that is not dangerous (read_file,
\* list_directory, ask_user and the five memory tools, delete_memory_node
\* among them), for a call of an unknown tool or for a call with invalid
\* arguments.
C33_GateOncePerDangerousCall ==
    /\ ({"read_file", "list_directory", "ask_user"} \cup MemoryTools)
          \cap DANGEROUS_TOOLS = {}
    /\ \A j \in 1..Len(tool_calls) :
          /\ Cardinality(Asks(j)) <= 1
          /\ (Gated(j) /\ PastApprovalCheck(j)) => Cardinality(Asks(j)) = 1
          /\ ~Gated(j) => Asks(j) = {}
          /\ Gated(j) =>
                \A q \in 1..Len(events) :
                   events[q] = Event("exec", j) =>
                      \E p \in Asks(j), r \in 1..Len(events) :
                         p < r /\ r < q /\ events[r] = Event("approved", j)

\* a batch of a delete_memory_node call and an approved shell command: the
\* delete ran without the gate, the shell command after it
C33_Witness ==
    /\ Len(tool_calls) = 2
    /\ tool_calls[1].name = "delete_memory_node"
    /\ tool_calls[2].name = "execute_shell_command"
    /\ EventsOf(1) = {"exec", "result"}
    /\ Cardinality(Asks(2)) = 1
    /\ {"ask", "approved", "exec"} \subseteq EventsOf(2)

\* the process runs with an enabled store and the file is still the
\* malformed file the store was initialized from
OnMalformedFile ==
    /\ mpc = "running"
    /\ MEMORY_FILE_PATH # "None"
    /\ memory_file.kind = "malformed"

====
